---------------------------- MODULE Spec2Model ----------------------------
(***************************************************************************)
(* Synapse load balancer (src/load_balancer.py): the startup probe pass of *)
(* lifespan, the background health_check_task, and the proxy handler, as   *)
(* asyncio coroutines.  One action is one run of a coroutine between two   *)
(* awaits that give control back to the event loop.                        *)
(***************************************************************************)
EXTENDS Integers, Sequences, FiniteSets, TLC

(* ------------------------------ bounds -------------------------------- *)

\* Number of proxy requests that can be in flight at once.
MaxRequests == 2
\* Number of proxy requests in flight at once in the liveness specification
\* (at most MaxRequests): its fairness graph is the costly one.
MaxFairRequests == 1
\* Length of the recorded window of selections (history, for round robin).
MaxLog == 4
\* Longest header list of an inbound request.
MaxHeaders == 2

(* --------------------------- configuration ---------------------------- *)

BACKEND_SERVERS ==
    << "http://localhost:8000", "http://localhost:8001", "http://localhost:8002" >>

Range(s) == { s[i] : i \in 1..Len(s) }

Servers == Range(BACKEND_SERVERS)

Requests == 1..MaxRequests

FairRequests == 1..MaxFairRequests

(* ---------------------------- the network ----------------------------- *)

\* What a GET <server>/health can end in: a response with a status, an
\* asyncio.TimeoutError (timeout=2), or an aiohttp.ClientError.
ProbeOutcomes ==
    { [kind |-> "response", status |-> 200],
      [kind |-> "response", status |-> 503],
      [kind |-> "TimeoutError", status |-> 0],
      [kind |-> "ClientError", status |-> 0] }


(* ------------------------- requests and headers ----------------------- *)

HeaderNames == { "host", "Host", "accept" }
HeaderValues == { "a", "b" }
HeaderPairs == { <<n, v>> : n \in HeaderNames, v \in HeaderValues }

RECURSIVE SeqsUpTo(_, _)
SeqsUpTo(S, n) ==
    IF n = 0 THEN { <<>> }
    ELSE LET shorter == SeqsUpTo(S, n - 1)
         IN  shorter \cup { Append(s, x) : s \in shorter, x \in S }

\* str.lower() on the header names of the model.
Lower(name) ==
    CASE name = "Host" -> "host"
      [] name = "Transfer-Encoding" -> "transfer-encoding"
      [] name = "Connection" -> "connection"
      [] name = "X-Test" -> "x-test"
      [] OTHER -> name

NoRequest == [method |-> "", path |-> "", query |-> "", headers |-> <<>>, body |-> ""]

\* The inbound requests of the main specification: one shape is enough there.
SampleRequests ==
    { [method |-> "POST", path |-> "v1/chat/completions", query |-> "q=1",
       headers |-> << <<"host", "a">>, <<"accept", "b">> >>, body |-> "hello"] }

\* The inbound requests of the forwarding specification.
AllRequests ==
    { [method |-> m, path |-> "v1/models", query |-> "q=1", headers |-> h, body |-> b] :
        m \in { "GET", "DELETE" },
        h \in SeqsUpTo(HeaderPairs, MaxHeaders),
        b \in { "hello" } }

NoResponse == [status |-> 0, headers |-> <<>>, body |-> ""]

ResponseHeaderNames == { "X-Test", "Transfer-Encoding", "connection" }
ResponseHeaderValues == { "1", "chunked" }
ResponseHeaderPairs ==
    { <<n, v>> : n \in ResponseHeaderNames, v \in ResponseHeaderValues }

\* The upstream responses of the forwarding specification.
AllResponses ==
    { [status |-> st, headers |-> h, body |-> "hello"] :
        st \in { 201, 500 },
        h \in SeqsUpTo(ResponseHeaderPairs, MaxHeaders) }

\* The upstream response of the main specification.
SampleResponses == { [status |-> 200, headers |-> << <<"X-Test", "1">> >>, body |-> "ok"] }

(* ------------------------------- state -------------------------------- *)

VARIABLES
    healthy_servers,    \* the module-level list (line 23)
    server_iterator,    \* the module-level itertools.cycle object (line 24)
    lifespan_pc,        \* "probing" | "serving" | "shutdown" | "failed"
    lifespan_i,         \* position of the startup for loop in BACKEND_SERVERS
    initially_healthy,  \* the local list of lifespan
    hc_pc,              \* "none" | "created" | "probing" | "sleeping" | "dead"
    hc_i,               \* position of the for loop of health_check_task
    currently_healthy,  \* the local list of health_check_task
    rq,                 \* per request: the handler's position and locals (gone
                        \* when it returns), and what the client got
    probed,             \* history: servers probed in the pass in progress/last completed
    probed_ok,          \* history: those of them whose probe returned 200
    startup_probed,     \* history: servers probed by the startup pass
    selections,         \* history: selections since the membership last changed
    published,          \* history: the last completed probe pass: the servers that
                        \* returned 200 in it, and whether that set differed from
                        \* the healthy set of the time ("startup" | "changed" | "same")
    clock               \* time in seconds, kept by the timed specification: since
                        \* the running cycle started, spent in the await in
                        \* progress, the probing time of the last completed pass,
                        \* and of the last two cycle starts the probing time of
                        \* the earlier and their distance (-1: none yet)

vars == << healthy_servers, server_iterator, lifespan_pc, lifespan_i,
           initially_healthy, hc_pc, hc_i, currently_healthy, rq,
           probed, probed_ok, startup_probed, selections, published, clock >>

hcvars == << hc_pc, hc_i, currently_healthy >>
lsvars == << lifespan_pc, lifespan_i, initially_healthy >>

(* --------------------------- itertools.cycle -------------------------- *)

\* cycle(healthy_servers): a list iterator over the (shared, live) list, the
\* elements saved so far, and the replay position.  it = 0: list iterator
\* exhausted and dropped.
cycle == [it |-> 1, saved |-> <<>>, index |-> 1]

\* Variant: iter(healthy_servers) in place of cycle(healthy_servers): one pass
\* over the list, then StopIteration.
CycleNextOnce(c, list) ==
    IF c.it # 0 /\ c.it <= Len(list)
    THEN [stop |-> FALSE, item |-> list[c.it],
          iter |-> [c EXCEPT !.it = @ + 1, !.saved = Append(@, list[c.it])]]
    ELSE [stop |-> TRUE, item |-> "none", iter |-> [c EXCEPT !.it = 0]]

\* next(c) with the list object that c iterates holding `list` now.
CycleNext(c, list) ==
    IF c.it # 0 /\ c.it <= Len(list)
    THEN [stop |-> FALSE, item |-> list[c.it],
          iter |-> [c EXCEPT !.it = @ + 1, !.saved = Append(@, list[c.it])]]
    ELSE IF Len(c.saved) = 0
    THEN [stop |-> TRUE, item |-> "none", iter |-> [c EXCEPT !.it = 0]]
    ELSE [stop |-> FALSE, item |-> c.saved[c.index],
          iter |-> [c EXCEPT !.it = 0,
                             !.index = IF @ + 1 > Len(c.saved) THEN 1 ELSE @ + 1]]

(* ------------------------------- Init --------------------------------- *)

IdleRequest ==
    [pc |-> "idle", target |-> "none", net |-> "none", result |-> "none",
     upstream |-> <<>>, inbound |-> NoRequest, sent |-> NoRequest,
     received |-> NoResponse, response |-> NoResponse]

Init ==
    /\ healthy_servers = <<>>
    /\ server_iterator = cycle
    /\ lifespan_pc = "probing"
    /\ lifespan_i = 1
    /\ initially_healthy = <<>>
    /\ hc_pc = "none"
    /\ hc_i = 1
    /\ currently_healthy = <<>>
    /\ rq = [r \in Requests |-> IdleRequest]
    /\ probed = {}
    /\ probed_ok = {}
    /\ startup_probed = {}
    /\ selections = <<>>
    /\ published = [result |-> {}, kind |-> "none"]
    /\ clock = [since_start |-> 0, waited |-> 0, probing |-> 0,
                last_probing |-> -1, last_gap |-> -1]


(* ------------------------------ probing ------------------------------- *)

N == Len(BACKEND_SERVERS)

\* Variant: the probed URL is appended instead of the server.
ProbeAppendUrl(list, server, o) ==
    IF o.kind = "response" /\ o.status = 200
    THEN Append(list, server \o "/health") ELSE list

\* Lines 38-40 and 65-67: the server is appended iff the response status is 200.
ProbeAppend(list, server, o) ==
    IF o.kind = "response" /\ o.status = 200 THEN Append(list, server) ELSE list

\* Variant: except aiohttp.ClientError alone.
ProbeCaughtClientError(o) == o.kind = "ClientError"

\* Lines 41 and 68: except (aiohttp.ClientError, asyncio.TimeoutError).
ProbeCaught(o) == o.kind \in { "ClientError", "TimeoutError" }

ProbeOk(o) == o.kind = "response" /\ o.status = 200

(* ------------------------------ lifespan ------------------------------ *)

\* Variant: asyncio.create_task(health_check_task()) ahead of the probe pass.
LifespanProbeSpawnFirst(o) ==
    /\ lifespan_pc = "probing"
    /\ lifespan_i <= N
    /\ LET server == BACKEND_SERVERS[lifespan_i]
       IN  /\ initially_healthy' = ProbeAppend(initially_healthy, server, o)
           /\ lifespan_i' = lifespan_i + 1
           /\ probed' = probed \cup { server }
           /\ probed_ok' = IF ProbeOk(o) THEN probed_ok \cup { server } ELSE probed_ok
           /\ startup_probed' = startup_probed \cup { server }
    /\ hc_pc' = IF hc_pc = "none" THEN "created" ELSE hc_pc
    /\ UNCHANGED << healthy_servers, server_iterator, lifespan_pc, hc_i,
                    currently_healthy, rq, selections, published >>

\* One turn of the startup for loop (lines 63-69) with probe outcome o.
LifespanProbe(o) ==
    /\ lifespan_pc = "probing"
    /\ lifespan_i <= N
    /\ LET server == BACKEND_SERVERS[lifespan_i]
       IN  /\ IF o.kind = "response" \/ ProbeCaught(o)
              THEN /\ initially_healthy' = ProbeAppend(initially_healthy, server, o)
                   /\ lifespan_i' = lifespan_i + 1
                   /\ lifespan_pc' = lifespan_pc
              ELSE /\ lifespan_pc' = "failed"
                   /\ UNCHANGED << initially_healthy, lifespan_i >>
           /\ probed' = probed \cup { server }
           /\ probed_ok' = IF ProbeOk(o) THEN probed_ok \cup { server } ELSE probed_ok
           /\ startup_probed' = startup_probed \cup { server }
    /\ UNCHANGED << healthy_servers, server_iterator, hcvars, rq, selections,
                    published >>

\* Lines 71-77: publish the startup result, create the background task, yield:
\* from here the application serves requests.  The local initially_healthy
\* is not read after line 71 and is dropped here.
LifespanPublish ==
    /\ lifespan_pc = "probing"
    /\ lifespan_i > N
    /\ healthy_servers' = healthy_servers \o initially_healthy
    /\ server_iterator' = cycle
    /\ hc_pc' = "created"
    /\ lifespan_pc' = "serving"
    /\ selections' = IF Range(healthy_servers') # Range(healthy_servers)
                     THEN <<>> ELSE selections
    /\ initially_healthy' = <<>>
    /\ published' = [result |-> probed_ok, kind |-> "startup"]
    /\ UNCHANGED << lifespan_i, hc_i, currently_healthy, rq, probed, probed_ok,
                    startup_probed >>

\* Lines 77-79: the application shuts down and the code after yield runs: a
\* print.  The task created at line 75 is not referenced again.
LifespanShutdown ==
    /\ lifespan_pc = "serving"
    /\ lifespan_pc' = "shutdown"
    /\ UNCHANGED << healthy_servers, server_iterator, lifespan_i, initially_healthy,
                    hcvars, rq, probed, probed_ok, startup_probed, selections,
                    published >>

(* -------------------------- health_check_task ------------------------- *)

\* The task runs its first cycle once created, and the next ones when
\* asyncio.sleep(HEALTH_CHECK_INTERVAL) returns (lines 33-35, 50).
HCWake ==
    /\ hc_pc \in { "created", "sleeping" }
    /\ hc_pc' = "probing"
    /\ hc_i' = 1
    /\ currently_healthy' = <<>>
    /\ probed' = {}
    /\ probed_ok' = {}
    /\ UNCHANGED << healthy_servers, server_iterator, lsvars, rq, startup_probed, published,
                    selections >>

\* One turn of the for loop of a cycle (lines 36-42) with probe outcome o.
HCProbe(o) ==
    /\ hc_pc = "probing"
    /\ hc_i <= N
    /\ LET server == BACKEND_SERVERS[hc_i]
       IN  /\ IF o.kind = "response" \/ ProbeCaught(o)
              THEN /\ currently_healthy' = ProbeAppend(currently_healthy, server, o)
                   /\ hc_i' = hc_i + 1
                   /\ hc_pc' = hc_pc
              ELSE /\ hc_pc' = "dead"
                   /\ UNCHANGED << currently_healthy, hc_i >>
           /\ probed' = probed \cup { server }
           /\ probed_ok' = IF ProbeOk(o) THEN probed_ok \cup { server } ELSE probed_ok
    /\ UNCHANGED << healthy_servers, server_iterator, lsvars, rq, startup_probed, published,
                    selections >>

\* Variant: the lists are compared by length.
ChangedLen(current, healthy) == Len(current) # Len(healthy)

\* Variant: every cycle replaces the list.
ChangedAlways(current, healthy) == TRUE

\* Line 44: set(currently_healthy) != set(healthy_servers).
Changed(current, healthy) == Range(current) # Range(healthy)

\* Variant: line 48 missing, the old cycle object stays.
ReplaceKeepIterator(current) ==
    /\ healthy_servers' = current
    /\ UNCHANGED server_iterator

\* Variant: the task gives control back between clear() and extend(), so the
\* cleared list is what the requests see.
ReplaceClearOnly(current) ==
    /\ healthy_servers' = <<>>
    /\ server_iterator' = cycle

\* Lines 46-48: clear, extend, and a new cycle over the list.
Replace(current) ==
    /\ healthy_servers' = current
    /\ server_iterator' = cycle

\* Lines 44-50: compare, replace when changed, go to sleep.
HCPublish ==
    /\ hc_pc = "probing"
    /\ hc_i > N
    /\ IF Changed(currently_healthy, healthy_servers)
       THEN Replace(currently_healthy)
       ELSE UNCHANGED << healthy_servers, server_iterator >>
    /\ hc_pc' = "sleeping"
    /\ selections' = IF Range(healthy_servers') # Range(healthy_servers)
                     THEN <<>> ELSE selections
    /\ published' = [result |-> probed_ok,
                     kind |-> IF Range(currently_healthy) # Range(healthy_servers)
                              THEN "changed" ELSE "same"]
    /\ UNCHANGED << hc_i, currently_healthy, lsvars, rq, probed, probed_ok,
                    startup_probed >>

(* ----------------------- health_check_task, timed --------------------- *)

\* Line 20.
HEALTH_CHECK_INTERVAL == 10

\* Line 38: session.get(..., timeout=2).
PROBE_TIMEOUT == 2

\* Line 50: asyncio.sleep(HEALTH_CHECK_INTERVAL) returns once the task has
\* slept for the interval.
SleepOver(waited, since_start) == waited = HEALTH_CHECK_INTERVAL

\* A second passes while the task awaits a probe that has not timed out, or
\* sleeps; the steps between two awaits take no time.
Tick ==
    /\ \/ hc_pc = "probing" /\ hc_i <= N /\ clock.waited < PROBE_TIMEOUT
       \/ hc_pc = "sleeping" /\ ~SleepOver(clock.waited, clock.since_start)
    /\ clock' = [clock EXCEPT !.since_start = @ + 1, !.waited = @ + 1]
    /\ UNCHANGED << healthy_servers, server_iterator, lsvars, hcvars, rq, probed,
                    probed_ok, startup_probed, selections, published >>

\* HCWake with the time: the first cycle starts when the task is created, a
\* later one when the sleep of line 50 is over.
TimedHCWake ==
    /\ HCWake
    /\ hc_pc = "sleeping" => SleepOver(clock.waited, clock.since_start)
    /\ clock' = IF hc_pc = "sleeping"
                THEN [clock EXCEPT !.since_start = 0, !.waited = 0,
                                   !.last_probing = clock.probing,
                                   !.last_gap = clock.since_start]
                ELSE [clock EXCEPT !.since_start = 0, !.waited = 0]

\* HCProbe with the time: asyncio.TimeoutError is raised when the probe has
\* taken the timeout, any other outcome comes within it.
TimedHCProbe(o) ==
    /\ HCProbe(o)
    /\ o.kind = "TimeoutError" => clock.waited = PROBE_TIMEOUT
    /\ clock' = [clock EXCEPT !.waited = 0]

\* HCPublish with the time: the pass is over and the sleep begins.
TimedHCPublish ==
    /\ HCPublish
    /\ clock' = [clock EXCEPT !.waited = 0, !.probing = clock.since_start]

(* -------------------------------- proxy ------------------------------- *)

\* d[k] = v on a dict kept as its item list: a key already present keeps its
\* place and takes the new value, a new key goes last.
DictSet(d, k, v) ==
    IF \E i \in 1..Len(d) : d[i][1] = k
    THEN [i \in 1..Len(d) |-> IF d[i][1] = k THEN <<k, v>> ELSE d[i]]
    ELSE Append(d, <<k, v>>)

\* {k: v for k, v in items if k.lower() not in excluded}: the items of the dict.
RECURSIVE DictComprehension(_, _, _)
DictComprehension(items, excluded, d) ==
    IF items = <<>> THEN d
    ELSE LET k == Head(items)[1]
             v == Head(items)[2]
         IN  DictComprehension(Tail(items), excluded,
                               IF Lower(k) \in excluded THEN d ELSE DictSet(d, k, v))

\* Line 102.
backend_headers(headers) == DictComprehension(headers, { "host" }, <<>>)

\* Lines 117-120.
response_headers(headers) ==
    DictComprehension(headers, { "transfer-encoding", "connection" }, <<>>)

\* Lines 97, 104-110: the upstream request built from the inbound one.
UpstreamRequest(q) ==
    [method |-> q.method, path |-> q.path, query |-> q.query,
     headers |-> backend_headers(q.headers), body |-> q.body]

\* HTTPException(status_code=...) as the client sees it.
HTTPException(code) == [status |-> code, headers |-> <<>>, body |-> "detail"]

Log(list, x) ==
    LET l == Append(list, x)
    IN  IF Len(l) > MaxLog THEN Tail(l) ELSE l

\* Variant: healthy_servers is None.
NoHealthyNone(list) == FALSE

\* Line 91: not healthy_servers.
NoHealthy(list) == list = <<>>

\* Lines 91-111: a request arrives; the handler checks the list, takes the
\* next server of the iterator and issues the upstream call, all without
\* giving control back.  q is the inbound request.
ProxySelect(r, q) ==
    /\ lifespan_pc = "serving"
    /\ rq[r].pc \in { "idle", "done" }
    /\ IF NoHealthy(healthy_servers)
       THEN /\ rq' = [rq EXCEPT ![r] = [IdleRequest EXCEPT
                         !.pc = "done", !.result = "HTTPException",
                         !.response = HTTPException(503)]]
            /\ UNCHANGED << server_iterator, selections >>
       ELSE LET n == CycleNext(server_iterator, healthy_servers)
            IN  IF n.stop
                THEN \* StopIteration leaves the handler: no except clause takes it
                     /\ rq' = [rq EXCEPT ![r] = [IdleRequest EXCEPT
                                  !.pc = "done", !.result = "unhandled",
                                  !.response = HTTPException(500)]]
                     /\ server_iterator' = n.iter
                     /\ UNCHANGED selections
                ELSE /\ rq' = [rq EXCEPT ![r] = [IdleRequest EXCEPT
                                  !.pc = "upstream", !.inbound = q, !.target = n.item,
                                  !.upstream = << n.item >>,
                                  !.sent = UpstreamRequest(q)]]
                     /\ server_iterator' = n.iter
                     /\ selections' = Log(selections, n.item)
    /\ UNCHANGED << healthy_servers, lsvars, hcvars, probed, probed_ok,
                    startup_probed, published >>

\* Lines 113-127: the upstream response is read in full and relayed.
ProxyRelay(r, resp) ==
    /\ rq[r].pc = "upstream"
    /\ rq' = [rq EXCEPT ![r] = [IdleRequest EXCEPT
                  !.pc = "done", !.result = "relayed", !.net = "answers",
                  !.received = resp,
                  !.response = [status |-> resp.status,
                                headers |-> response_headers(resp.headers),
                                body |-> resp.body]]]
    /\ UNCHANGED << healthy_servers, server_iterator, lsvars, hcvars, probed,
                    probed_ok, startup_probed, published, selections >>

\* Variant: except aiohttp.ClientError alone.
ProxyCaughtClientError(kind) == kind = "ClientError"

\* Line 128: except (aiohttp.ClientError, asyncio.TimeoutError).
ProxyCaught(kind) == kind \in { "ClientError", "TimeoutError" }

\* Variant: a failed upstream call is retried once against the next server.
ProxyRaiseRetry(r, net, kind) ==
    LET n == CycleNext(server_iterator, healthy_servers)
    IN  /\ IF Len(rq[r].upstream) < 2 /\ ~n.stop
           THEN /\ rq' = [rq EXCEPT ![r].target = n.item,
                                    ![r].upstream = Append(@, n.item)]
                /\ server_iterator' = n.iter
           ELSE /\ rq' = [rq EXCEPT ![r] = [IdleRequest EXCEPT
                             !.pc = "done", !.net = net, !.result = "HTTPException",
                             !.response = HTTPException(502)]]
                /\ UNCHANGED server_iterator
        /\ UNCHANGED << healthy_servers, lsvars, hcvars, probed, probed_ok,
                        startup_probed, published, selections >>

\* Variant: a failed upstream call takes its backend out of the healthy list.
ProxyRaiseEvict(r, net, kind) ==
    /\ rq' = [rq EXCEPT ![r] = [IdleRequest EXCEPT
                  !.pc = "done", !.net = net, !.result = "HTTPException",
                  !.response = HTTPException(502)]]
    /\ healthy_servers' = SelectSeq(healthy_servers, LAMBDA x : x # rq[r].target)
    /\ UNCHANGED << server_iterator, lsvars, hcvars, probed, probed_ok,
                    startup_probed, published, selections >>

\* Lines 128-129: the exception of a failed upstream call ends the request.
ProxyRaise(r, net, kind) ==
    /\ rq' = [rq EXCEPT ![r] = [IdleRequest EXCEPT
                  !.pc = "done", !.net = net,
                  !.result = IF ProxyCaught(kind) THEN "HTTPException" ELSE "unhandled",
                  !.response = IF ProxyCaught(kind) THEN HTTPException(502)
                               ELSE HTTPException(500)]]
    /\ UNCHANGED << healthy_servers, server_iterator, lsvars, hcvars, probed,
                    probed_ok, startup_probed, published, selections >>

\* The upstream call fails with a transport error (aiohttp.ClientError).
ProxyError(r) ==
    /\ rq[r].pc = "upstream"
    /\ ProxyRaise(r, "fails", "ClientError")

\* Line 110: ClientTimeout(total=120.0) ends a call the backend never answers.
ProxyTimeout(r) ==
    /\ rq[r].pc = "upstream"
    /\ ProxyRaise(r, "hangs", "TimeoutError")

(* --------------------------- specifications --------------------------- *)

\* The specifications below that do not measure time leave the clock alone.
Lifespan ==
    \/ LifespanPublish /\ UNCHANGED clock
    \/ LifespanShutdown /\ UNCHANGED clock
    \/ \E o \in ProbeOutcomes : LifespanProbe(o) /\ UNCHANGED clock

HealthCheck ==
    \/ HCWake /\ UNCHANGED clock
    \/ HCPublish /\ UNCHANGED clock
    \/ \E o \in ProbeOutcomes : HCProbe(o) /\ UNCHANGED clock

Select(r, q) == ProxySelect(r, q) /\ UNCHANGED clock

Finish(r) ==
    \/ ProxyError(r) /\ UNCHANGED clock
    \/ ProxyTimeout(r) /\ UNCHANGED clock
    \/ \E resp \in SampleResponses : ProxyRelay(r, resp) /\ UNCHANGED clock

Next ==
    \/ Lifespan
    \/ HealthCheck
    \/ \E r \in Requests : \E q \in SampleRequests : Select(r, q)
    \/ \E r \in Requests : Finish(r)

Spec == Init /\ [][Next]_vars

\* The event loop runs every coroutine that is ready: the probes of the task
\* end within their timeout of 2 s and its sleep ends, and an upstream call
\* answers, fails or times out.
NextFair ==
    \/ Lifespan
    \/ HealthCheck
    \/ \E r \in FairRequests : \E q \in SampleRequests : Select(r, q)
    \/ \E r \in FairRequests : Finish(r)

FairSpec ==
    /\ Init
    /\ [][NextFair]_vars
    /\ WF_vars(HealthCheck)
    /\ \A r \in FairRequests : WF_vars(Finish(r))

\* The proxy pipeline alone, one request at a time, over every inbound
\* request and upstream response of the model.
NextForward ==
    \/ Lifespan
    \/ \E q \in AllRequests : Select(1, q)
    \/ \E resp \in AllResponses : ProxyRelay(1, resp) /\ UNCHANGED clock
    \/ ProxyError(1) /\ UNCHANGED clock
    \/ ProxyTimeout(1) /\ UNCHANGED clock

SpecForward == Init /\ [][NextForward]_vars

\* The health checker with the time its awaits take.
NextTimed ==
    \/ Lifespan
    \/ TimedHCWake
    \/ TimedHCPublish
    \/ \E o \in ProbeOutcomes : TimedHCProbe(o)
    \/ Tick

SpecTimed == Init /\ [][NextTimed]_vars

(* ------------------------------- claims ------------------------------- *)

\* C1: in every reachable state every element of the healthy list is one of
\* the configured backends (so an empty configuration leaves it empty).
HealthySubsetOfConfigured ==
    /\ \A i \in 1..Len(healthy_servers) : healthy_servers[i] \in Servers
    /\ (BACKEND_SERVERS = <<>> => healthy_servers = <<>>)

\* C1 witness: a periodic cycle has published a list of two backends.
HealthyTwoAfterCycle ==
    /\ hc_pc = "sleeping"
    /\ Len(healthy_servers) = 2
    /\ \E r \in Requests : rq[r].pc = "upstream"

\* C2: after every completed probe pass (the startup pass, a periodic cycle)
\* the healthy set is exactly the set of backends whose probe of that pass
\* returned 200, whatever the healthy set was before.
HealthyIsLastPassResult ==
    (lifespan_pc = "serving" /\ hc_pc \in { "created", "sleeping" })
        => Range(healthy_servers) = probed_ok

\* C2 witness: a backend that was healthy when a request in flight selected
\* it failed its probe in the cycle just completed and is absent, while
\* another backend is present.
DemotedByOneFailure ==
    /\ hc_pc = "sleeping"
    /\ healthy_servers # <<>>
    /\ \E r \in Requests :
          /\ rq[r].pc = "upstream"
          /\ rq[r].target \in probed \ probed_ok
          /\ rq[r].target \notin Range(healthy_servers)

\* C3: while the membership of the healthy set (size k >= 1) does not change,
\* any k consecutive selections are the k members, each once, and the
\* selection k places later is the same backend again.
RoundRobinWindows ==
    LET k == Len(healthy_servers)
    IN  k >= 1 =>
          /\ \A i \in 1..Len(selections) :
                i + k - 1 <= Len(selections) =>
                  /\ { selections[j] : j \in i..(i + k - 1) } = Range(healthy_servers)
                  /\ Cardinality(Range(healthy_servers)) = k
          /\ \A i \in 1..Len(selections) :
                i + k <= Len(selections) => selections[i + k] = selections[i]

\* C3 witness: a full window of selections over three healthy backends, with
\* a health-check cycle running in between.
FullWindowOverThree ==
    /\ Len(healthy_servers) = 3
    /\ Len(selections) = MaxLog
    /\ hc_pc = "probing"
    /\ hc_i = 2

\* C4: a request whose selection finds the healthy list empty ends with 503
\* and has issued no upstream request.
EmptyGives503NoUpstream ==
    [][ \A r \in Requests :
          (rq[r].pc # "upstream" /\ rq'[r] # rq[r] /\ healthy_servers = <<>>)
            => /\ rq'[r].pc = "done"
               /\ rq'[r].response.status = 503
               /\ rq'[r].upstream = <<>>
               /\ rq'[r].sent = NoRequest ]_vars

\* C4 witness: a request answered 503 with no upstream call, the list empty.
Answered503 ==
    /\ healthy_servers = <<>>
    /\ \E r \in Requests :
          /\ rq[r].pc = "done"
          /\ rq[r].response.status = 503
          /\ rq[r].upstream = <<>>

\* C5: the backend a selection returns is a member of the healthy list as it
\* stands at that selection.
SelectedIsHealthyThen ==
    [][ \A r \in Requests :
          (rq[r].pc # "upstream" /\ rq'[r].pc = "upstream")
            => rq'[r].target \in Range(healthy_servers) ]_vars

\* C5 witness: a request selects after a cycle has replaced the list, while
\* another request still talks to a backend the replacement removed.
SelectedAfterReplacement ==
    /\ hc_pc = "sleeping"
    /\ rq[1].pc = "upstream"
    /\ rq[1].target \notin Range(healthy_servers)
    /\ rq[2].pc = "upstream"
    /\ rq[2].target \in Range(healthy_servers)

\* C6: a request makes at most one upstream attempt, to the backend it
\* selected, and a transport error or timeout of that attempt gives 502.
OneAttemptThen502 ==
    \A r \in Requests :
        /\ Len(rq[r].upstream) <= 1
        /\ (rq[r].upstream # <<>> => rq[r].upstream = << rq[r].target >>)
        /\ (rq[r].pc = "done" /\ rq[r].net \in { "fails", "hangs" })
              => rq[r].response = HTTPException(502)

\* C6 witness: one request ended 502 after a timeout, another after a
\* transport error.
Answered502 ==
    /\ rq[1].pc = "done" /\ rq[1].net = "hangs" /\ rq[1].response.status = 502
    /\ rq[2].pc = "done" /\ rq[2].net = "fails" /\ rq[2].response.status = 502

\* C7: every request the handler took up ends, and ends as the relayed
\* upstream response, 503 or 502, never as an unhandled exception.
RequestsEndMapped ==
    /\ [](\A r \in Requests :
            rq[r].pc = "done" =>
              \/ rq[r].result = "relayed"
              \/ rq[r].result = "HTTPException" /\ rq[r].response.status \in { 502, 503 })
    /\ \A r \in Requests : (rq[r].pc = "upstream") ~> (rq[r].pc = "done")

\* C7 witness: a request whose backend never answered has ended, with 502,
\* while the healthy list has become empty.
EndedAfterTimeout ==
    /\ rq[1].pc = "done"
    /\ rq[1].net = "hangs"
    /\ rq[1].result = "HTTPException"
    /\ healthy_servers = <<>>

\* C8: no request is taken up and the background task does not exist until
\* the startup pass has probed every configured backend and published its
\* result; until the first periodic cycle, requests select from that result.
NothingBeforeStartupPass ==
    ((\E r \in Requests : rq[r].pc # "idle") \/ hc_pc # "none")
        => /\ lifespan_pc \in { "serving", "shutdown" }
           /\ startup_probed = Servers
           /\ (hc_pc = "created" => Range(healthy_servers) = probed_ok)

\* C8 witness: the first request is in flight before the first periodic cycle.
FirstRequestOnStartupResult ==
    /\ hc_pc = "created"
    /\ \E r \in Requests : rq[r].pc = "upstream"

\* C9: a failed probe does not stop the cycle: the cycle probes every
\* configured backend, publishes, and the loop runs the next cycle.
ProbeFailureContained ==
    /\ [](hc_pc = "sleeping" => probed = Servers)
    /\ [](hc_pc # "dead")
    /\ (hc_pc = "probing" /\ probed # probed_ok) ~> (hc_pc = "sleeping")
    /\ (hc_pc = "sleeping") ~> (hc_pc = "probing")

\* C9 witness: a cycle whose first probe failed has probed the others and
\* published the last backend.
CycleCompletedAfterFailure ==
    /\ hc_pc = "sleeping"
    /\ probed = Servers
    /\ BACKEND_SERVERS[1] \notin probed_ok
    /\ healthy_servers = << BACKEND_SERVERS[3] >>

\* C10: the upstream request has the method, path, query and body of the
\* inbound request, and as headers the inbound headers without those named
\* Host in any case.
ForwardedWithoutHost ==
    \A r \in Requests :
        rq[r].upstream # <<>> =>
          /\ rq[r].sent.method = rq[r].inbound.method
          /\ rq[r].sent.path = rq[r].inbound.path
          /\ rq[r].sent.query = rq[r].inbound.query
          /\ rq[r].sent.body = rq[r].inbound.body
          /\ rq[r].sent.headers =
                SelectSeq(rq[r].inbound.headers, LAMBDA h : Lower(h[1]) # "host")

\* C11: the client gets the status and body of the upstream response, and as
\* headers the upstream headers without those named Transfer-Encoding or
\* Connection in any case, every other one unchanged.  The status, the body
\* and the exclusion hold; a header name the upstream repeats keeps only its
\* last value, so the statement fails.
RelayedWithoutHopByHop ==
    \A r \in Requests :
        (rq[r].pc = "done" /\ rq[r].result = "relayed") =>
          /\ rq[r].response.status = rq[r].received.status
          /\ rq[r].response.body = rq[r].received.body
          /\ rq[r].response.headers =
                SelectSeq(rq[r].received.headers,
                          LAMBDA h : Lower(h[1]) \notin { "transfer-encoding", "connection" })

\* C12: a cycle that replaces the healthy set with a non-empty one restarts
\* the cursor: the next selection returns the first element of the new set,
\* the earliest of its members in configured order, wherever the cursor was.
CursorRestartsOnReplacement ==
    [][ /\ ( /\ hc_pc = "probing" /\ hc_pc' = "sleeping"
             /\ healthy_servers' # healthy_servers
             /\ healthy_servers' # <<>> ) =>
            LET n == CycleNext(server_iterator', healthy_servers')
            IN  /\ ~n.stop
                /\ n.item = healthy_servers'[1]
                /\ \A i, j \in 1..N :
                     ( BACKEND_SERVERS[i] = healthy_servers'[1]
                       /\ BACKEND_SERVERS[j] \in Range(healthy_servers') ) => i <= j
        /\ \A r \in Requests :
             ( /\ rq[r].pc # "upstream" /\ rq'[r].pc = "upstream"
               /\ published.kind = "changed"
               /\ selections = <<>> ) =>
                 rq'[r].target = healthy_servers[1]
      ]_vars

\* C12 witness: a cycle replaced the set while a request was in flight to a
\* server selected before; the one selection made since is the first element
\* of the new set of two or more.
CursorRestarted ==
    /\ published.kind = "changed"
    /\ Len(healthy_servers) >= 2
    /\ selections = << healthy_servers[1] >>
    /\ \E r, r2 \in Requests :
         /\ rq[r].pc = "upstream" /\ rq[r].target = healthy_servers[1]
         /\ rq[r2].pc = "upstream" /\ rq[r2].target # healthy_servers[1]

\* C13: a cycle whose result has the same membership as the current healthy
\* set leaves the healthy list and the cursor as they are, so the rotation
\* goes on from where it was.
SameMembershipKeepsCursor ==
    [][ ( /\ hc_pc = "probing" /\ hc_pc' = "sleeping"
          /\ Range(currently_healthy) = Range(healthy_servers) ) =>
            UNCHANGED << healthy_servers, server_iterator >>
      ]_vars

\* C13 witness: a cycle has found the membership of three unchanged; the
\* rotation stands in the middle of a pass.
RotationKeptAcrossCycle ==
    /\ published.kind = "same"
    /\ hc_pc = "sleeping"
    /\ Len(healthy_servers) = 3
    /\ server_iterator.it = 3
    /\ selections = << healthy_servers[1], healthy_servers[2] >>
    /\ \A r \in Requests : rq[r].pc = "upstream"

\* C14: the emptiness check, the read of the cursor and its advance are one
\* step: whatever the other requests are doing, a request that arrives while
\* the healthy set has exactly one element gets that element, and is never
\* answered 503.
SelectionOnOneElementSet ==
    [][ \A r \in Requests :
          ( /\ rq[r].pc \in { "idle", "done" }
            /\ rq'[r] # rq[r]
            /\ Len(healthy_servers) = 1 ) =>
              /\ rq'[r].pc = "upstream"
              /\ rq'[r].target = healthy_servers[1]
              /\ rq'[r].upstream = << healthy_servers[1] >>
              /\ healthy_servers' = healthy_servers
      ]_vars

\* C14 witness: every request of the model is in flight at once to the one
\* healthy backend, each selected since that backend became the only one.
AllOnTheOnlyBackend ==
    /\ Len(healthy_servers) = 1
    /\ Len(selections) = MaxRequests
    /\ \A r \in Requests :
         rq[r].pc = "upstream" /\ rq[r].target = healthy_servers[1]

\* C15: no request sees an intermediate healthy set: once the application
\* serves, every step leaves the healthy list the complete result of the last
\* completed probe pass, never the cleared list and never the partial result
\* of the cycle in progress; and a request that arrives while that result is
\* not empty is never answered 503, around a replacement or elsewhere.
NoIntermediateHealthySet ==
    [][ /\ lifespan_pc' = "serving" =>
             /\ Range(healthy_servers') = published'.result
             /\ Len(healthy_servers') = Cardinality(published'.result)
        /\ \A r \in Requests :
             ( /\ rq[r].pc \in { "idle", "done" }
               /\ rq'[r] # rq[r]
               /\ published.result # {} ) =>
                 /\ rq'[r].pc = "upstream"
                 /\ rq'[r].target \in published.result
      ]_vars

\* C15 witness: a request selected a backend while the cycle in progress, two
\* probes in, had collected nothing, after a cycle that changed the set.
SelectedDuringCycle ==
    /\ hc_pc = "probing" /\ hc_i = 3
    /\ currently_healthy = <<>>
    /\ published.kind = "changed"
    /\ Len(healthy_servers) = 2
    /\ selections = << healthy_servers[1] >>
    /\ \E r \in Requests : rq[r].pc = "upstream" /\ rq[r].target = healthy_servers[1]

\* C16: a request that has selected a backend keeps it: while the upstream
\* call is in flight its target is that backend and no other is contacted,
\* whatever happens to the healthy set, and the request ends with the relayed
\* response or with 502.
InFlightKeepsTarget ==
    [][ \A r \in Requests :
          rq[r].pc = "upstream" =>
            /\ rq[r].upstream = << rq[r].target >>
            /\ rq'[r].pc = "upstream" =>
                 /\ rq'[r].target = rq[r].target
                 /\ rq'[r].upstream = rq[r].upstream
            /\ rq'[r].pc # "upstream" =>
                 /\ rq'[r].pc = "done"
                 /\ \/ rq'[r].result = "relayed"
                    \/ rq'[r].result = "HTTPException" /\ rq'[r].response.status = 502
      ]_vars

\* C16 witness: a request is in flight to a backend that a cycle has since
\* removed from the healthy set, and the next cycle is already probing.
InFlightToRemovedBackend ==
    /\ published.kind = "changed"
    /\ hc_pc = "probing"
    /\ \E r \in Requests :
         /\ rq[r].pc = "upstream"
         /\ rq[r].target \notin Range(healthy_servers)
         /\ rq[r].target \notin published.result

\* C17: the healthy list changes only in a step of the health checker that
\* completes a probe pass (the startup pass, a periodic cycle); a step of a
\* proxy request, an upstream failure included, leaves it as it is.
OnlyHealthCheckerChangesHealthy ==
    [][ /\ healthy_servers' # healthy_servers =>
             /\ rq' = rq
             /\ \/ lifespan_pc = "probing" /\ lifespan_pc' = "serving"
                \/ hc_pc = "probing" /\ hc_i > N /\ hc_pc' = "sleeping"
        /\ rq' # rq => healthy_servers' = healthy_servers
      ]_vars

\* C17 witness: the only request made so far went to the one healthy backend
\* and ended 502; that backend is still the healthy list.
StillHealthyAfter502 ==
    /\ Len(healthy_servers) = 1
    /\ selections = << healthy_servers[1] >>
    /\ rq[1].pc = "done" /\ rq[1].net = "fails" /\ rq[1].response.status = 502
    /\ \A r \in Requests \ { 1 } : rq[r].pc = "idle"

\* C18: the interval runs from cycle start to cycle start: two consecutive
\* cycle starts are exactly one interval apart when the probing of the earlier
\* took less than the interval, and the probing time apart when it took the
\* interval or more.  The task sleeps the whole interval after each pass, so
\* the starts are the probing time plus the interval apart and this fails.
IntervalStartToStart ==
    clock.last_gap # -1 =>
      /\ clock.last_probing < HEALTH_CHECK_INTERVAL =>
           clock.last_gap = HEALTH_CHECK_INTERVAL
      /\ clock.last_probing >= HEALTH_CHECK_INTERVAL =>
           clock.last_gap = clock.last_probing

\* C19: the background task is started by the startup phase and cancelled by
\* the shutdown phase: it does not exist before the startup pass is published,
\* and once shutdown has run it makes no probe and writes neither the healthy
\* list nor the cursor.  The code after yield cancels nothing, so the task
\* goes on and this fails.
TaskStoppedByShutdown ==
    [][ /\ lifespan_pc = "probing" => hc_pc = "none"
        /\ lifespan_pc = "shutdown" =>
             /\ UNCHANGED << hc_pc, hc_i, currently_healthy, probed, probed_ok >>
             /\ UNCHANGED << healthy_servers, server_iterator >>
      ]_vars

=============================================================================
